---- MODULE Spec2Model ----
(***************************************************************************)
(* A model of bytecode.Bytecode (src/src/bytecode/bytecode.py): the list   *)
(* of symbolic entries with its function metadata, the validating          *)
(* iterator, legalize(), the label-resolving _flat() used by ==, and the   *)
(* type-stable copy and slicing.                                           *)
(*                                                                         *)
(* Objects.  A Python list holds references.  An entry is the record       *)
(*     [kind, id, name, arg, lineno]                                       *)
(* where id is the identity of the object.  Instr objects are mutable      *)
(* (legalize assigns instr.lineno), so a write to the Instr with identity  *)
(* id is applied to every entry with that id in both containers: that is   *)
(* what sharing a reference means.  Label, TryBegin and TryEnd are         *)
(* identities without mutable fields; SetLineno is an immutable value.     *)
(***************************************************************************)
EXTENDS Integers, Sequences, FiniteSets, TLC

VARIABLES C, C2, res, old

vars == <<C, C2, res, old>>

(***************************************************************************)
(* Bounds of the model.                                                    *)
(***************************************************************************)
\* longest entry list a container is grown to
MaxLen == 3
\* line numbers are drawn from 1..MaxLine
MaxLine == 2

(***************************************************************************)
(* Sentinels.                                                              *)
(***************************************************************************)
\* bytecode.instr.UNSET: "no line number given"
UNSET == -1
\* Python's None, the initial value of set_lineno in legalize
PyNone == -2

LabelIds == {1, 2}
\* the identity of the Label that renaming substitutes for Label l
FreshLabel(l) == l + 2

NoArg == [kind |-> "None", id |-> 0]
LabelArg(l) == [kind |-> "Label", id |-> l]
IntArg(n) == [kind |-> "Int", id |-> n]

(***************************************************************************)
(* The entry variants (bytecode.instr, imported at line 21).               *)
(***************************************************************************)
Instr(id, name, arg, lineno) ==
    [kind |-> "Instr", id |-> id, name |-> name, arg |-> arg, lineno |-> lineno]
Label(l) ==
    [kind |-> "Label", id |-> l, name |-> "", arg |-> NoArg, lineno |-> UNSET]
SetLineno(n) ==
    [kind |-> "SetLineno", id |-> 0, name |-> "", arg |-> NoArg, lineno |-> n]
TryBegin(t) ==
    [kind |-> "TryBegin", id |-> t, name |-> "", arg |-> NoArg, lineno |-> UNSET]
TryEnd(t) ==
    [kind |-> "TryEnd", id |-> t, name |-> "", arg |-> NoArg, lineno |-> UNSET]
\* a value that is none of the five variants (an int, a str, ...)
Other(v) ==
    [kind |-> "Other", id |-> v, name |-> "", arg |-> NoArg, lineno |-> UNSET]

\* isinstance(instr, BaseInstr): of the five variants only Instr is one
IsBaseInstr(e) == e.kind = "Instr"

(***************************************************************************)
(* BaseBytecode.__init__: the metadata a new container starts with.        *)
(***************************************************************************)
DefaultMeta ==
    [argcount |-> 0, posonlyargcount |-> 0, kwonlyargcount |-> 0,
     first_lineno |-> 1, name |-> "<module>", filename |-> "<string>",
     docstring |-> "UNSET", cellvars |-> <<>>, freevars |-> <<>>,
     flags |-> 0]

MetaFields == DOMAIN DefaultMeta

\* BaseBytecode._copy_attr_from: every field is assigned from the source;
\* cellvars and freevars through list(), a new list with the same items.
BaseBytecode_copy_attr_from(self, bytecode) ==
    [self EXCEPT !.meta =
        [argcount |-> bytecode.meta.argcount,
         posonlyargcount |-> bytecode.meta.posonlyargcount,
         kwonlyargcount |-> bytecode.meta.kwonlyargcount,
         flags |-> bytecode.meta.flags,
         first_lineno |-> bytecode.meta.first_lineno,
         name |-> bytecode.meta.name,
         filename |-> bytecode.meta.filename,
         docstring |-> bytecode.meta.docstring,
         cellvars |-> bytecode.meta.cellvars,
         freevars |-> bytecode.meta.freevars]]

\* Bytecode._copy_attr_from: the base fields, and argnames when the source
\* is a Bytecode.
copy_attr_from(self, bytecode) ==
    LET base == BaseBytecode_copy_attr_from(self, bytecode)
    IN  IF bytecode.kind = "Bytecode"
        THEN [base EXCEPT !.argnames = bytecode.argnames]
        ELSE base

\* "no container": the value of C2 before a copy, slice or renaming is made
NoBC ==
    [kind |-> "None", entries |-> <<>>, meta |-> DefaultMeta, argnames |-> <<>>]

(***************************************************************************)
(* Bytecode._check_instr and Bytecode.__iter__.                            *)
(***************************************************************************)
check_instr(instr) ==
    instr.kind \in {"Label", "SetLineno", "Instr", "TryBegin", "TryEnd"}

\* seen_try_begin after an entry that passed the checks
NextSeenNoClear(seen_try_begin, instr) ==
    IF instr.kind = "TryBegin" THEN TRUE ELSE seen_try_begin

NextSeen(seen_try_begin, instr) ==
    IF instr.kind = "TryBegin" THEN TRUE
    ELSE IF instr.kind = "TryEnd" THEN FALSE
    ELSE seen_try_begin

\* One turn of the generator's loop on entry instr: the exception it raises
\* instead of yielding, or "ok" and the new seen_try_begin.
IterStep(seen_try_begin, instr) ==
    IF ~check_instr(instr)
    THEN [status |-> "ValueError", seen |-> seen_try_begin]
    ELSE IF instr.kind = "TryBegin" /\ seen_try_begin
    THEN [status |-> "RuntimeError", seen |-> seen_try_begin]
    ELSE [status |-> "ok", seen |-> NextSeen(seen_try_begin, instr)]

RECURSIVE IterFrom(_, _, _)
IterFrom(s, i, seen_try_begin) ==
    IF i > Len(s) THEN [status |-> "ok", n |-> Len(s)]
    ELSE LET st == IterStep(seen_try_begin, s[i])
         IN  IF st.status # "ok" THEN [status |-> st.status, n |-> i - 1]
             ELSE IterFrom(s, i + 1, st.seen)

\* A full traversal of a Bytecode: how it ends and how many entries were
\* yielded before that.
Bytecode_iter(s) == IterFrom(s, 1, FALSE)

(***************************************************************************)
(* Object identities.                                                      *)
(***************************************************************************)
IsInstr(e) == e.kind = "Instr"

\* the identities of the Instr objects a list refers to
InstrIds(s) == {s[i].id : i \in {k \in DOMAIN s : IsInstr(s[k])}}

\* the identity a newly constructed Instr gets: one no live object has
NewId(used) == CHOOSE n \in 1..(Cardinality(used) + 1) : n \notin used

\* Evaluating a sequence of constructor expressions: every Instr(...) in it
\* makes a new object.
RECURSIVE Allocate(_, _)
Allocate(seq, used) ==
    IF seq = <<>> THEN <<>>
    ELSE IF IsInstr(Head(seq))
    THEN LET n == NewId(used)
         IN  <<[Head(seq) EXCEPT !.id = n]>> \o Allocate(Tail(seq), used \cup {n})
    ELSE <<Head(seq)>> \o Allocate(Tail(seq), used)

\* instr.lineno = lineno on the object with identity id, as seen through
\* the list s
WriteLineno(s, id, lineno) ==
    [i \in DOMAIN s |->
        IF IsInstr(s[i]) /\ s[i].id = id
        THEN [s[i] EXCEPT !.lineno = lineno] ELSE s[i]]

\* the list s after the Instr objects it shares with list t took the
\* field values they have in t
SyncFrom(s, t) ==
    [i \in DOMAIN s |->
        IF IsInstr(s[i]) /\ s[i].id \in InstrIds(t)
        THEN LET j == CHOOSE k \in DOMAIN t : IsInstr(t[k]) /\ t[k].id = s[i].id
             IN  t[j]
        ELSE s[i]]

(***************************************************************************)
(* _BaseBytecodeList.legalize.                                             *)
(***************************************************************************)
\* lines 142-147 with the instruction's own explicit line taking precedence
LinenoForOwnFirst(set_lineno, lineno, current_lineno) ==
    IF lineno # UNSET THEN lineno
    ELSE IF set_lineno # PyNone THEN set_lineno
    ELSE current_lineno

\* the line an instruction has after lines 142-147
LinenoFor(set_lineno, lineno, current_lineno) ==
    IF set_lineno # PyNone THEN set_lineno
    ELSE IF lineno = UNSET THEN current_lineno
    ELSE lineno

\* current_lineno after lines 142-147
NextCurrent(set_lineno, lineno, current_lineno) ==
    IF set_lineno # PyNone THEN current_lineno
    ELSE IF lineno = UNSET THEN current_lineno
    ELSE lineno

\* del self[i] on a Python list, i counted from 0
DelItem(r, i) ==
    IF r.status # "ok" THEN r
    ELSE IF i >= Len(r.entries) THEN [r EXCEPT !.status = "IndexError"]
    ELSE [r EXCEPT !.entries =
            SubSeq(r.entries, 1, i) \o SubSeq(r.entries, i + 2, Len(r.entries))]

\* the deletions made in increasing order of position
RECURSIVE DelForward(_, _)
DelForward(r, lineno_pos) ==
    IF lineno_pos = <<>> THEN r
    ELSE DelForward(DelItem(r, Head(lineno_pos)), Tail(lineno_pos))

\* for i in reversed(lineno_pos): del self[i]
RECURSIVE DelMarkers(_, _)
DelMarkers(r, lineno_pos) ==
    IF lineno_pos = <<>> THEN r
    ELSE DelMarkers(DelItem(r, lineno_pos[Len(lineno_pos)]),
                    SubSeq(lineno_pos, 1, Len(lineno_pos) - 1))

\* The first loop, from the entry at pos (counted from 1).  The loop draws
\* its entries from the validating iterator, so it stops with the
\* iterator's exception at the entry the iterator rejects; the line numbers
\* written before that stay written.
RECURSIVE LegalizeWalk(_, _, _, _, _, _)
LegalizeWalk(s, pos, seen_try_begin, set_lineno, current_lineno, lineno_pos) ==
    IF pos > Len(s)
    THEN [status |-> "ok", entries |-> s, lineno_pos |-> lineno_pos]
    ELSE
    LET instr == s[pos]
        st == IterStep(seen_try_begin, instr)
    IN  IF st.status # "ok"
        THEN [status |-> st.status, entries |-> s, lineno_pos |-> lineno_pos]
        ELSE IF instr.kind = "SetLineno"
        THEN LegalizeWalk(s, pos + 1, st.seen, instr.lineno, current_lineno,
                          Append(lineno_pos, pos - 1))
        ELSE IF ~IsBaseInstr(instr)
        THEN LegalizeWalk(s, pos + 1, st.seen, set_lineno, current_lineno,
                          lineno_pos)
        ELSE LegalizeWalk(
                WriteLineno(s, instr.id,
                            LinenoFor(set_lineno, instr.lineno, current_lineno)),
                pos + 1, st.seen, set_lineno,
                NextCurrent(set_lineno, instr.lineno, current_lineno),
                lineno_pos)

\* legalize() on a container: [status, entries]
legalize(self) ==
    LET w == LegalizeWalk(self.entries, 1, FALSE, PyNone,
                          self.meta.first_lineno, <<>>)
    IN  IF w.status # "ok"
        THEN [status |-> w.status, entries |-> w.entries]
        ELSE DelMarkers([status |-> "ok", entries |-> w.entries], w.lineno_pos)

(***************************************************************************)
(* _InstrList._flat and _InstrList.__eq__.                                 *)
(***************************************************************************)
\* "label_instr%s" % index, the placeholder emitted for a Label; index is
\* enumerate's, counted from 0
LabelPlaceholderById(index, instr) ==
    [kind |-> "label_instr", id |-> instr.id, name |-> "", arg |-> NoArg,
     lineno |-> UNSET]

LabelPlaceholder(index, instr) ==
    [kind |-> "label_instr", id |-> index, name |-> "", arg |-> NoArg,
     lineno |-> UNSET]

\* ConcreteInstr(instr.name, 0, location=instr.location): a new object that
\* is no Instr, with the jump's name and location
ConcreteInstr(name, arg, lineno) ==
    [kind |-> "ConcreteInstr", id |-> 0, name |-> name, arg |-> IntArg(arg),
     lineno |-> lineno]

\* offset after an entry, were labels counted like the other entries
NextOffsetCountingLabels(offset, instr) == offset + 1

\* offset after an entry: only the entries that are no Label advance it
NextOffset(offset, instr) ==
    IF instr.kind = "Label" THEN offset ELSE offset + 1

IsJump(instr) == instr.kind = "Instr" /\ instr.arg.kind = "Label"

\* The first loop of _flat from the entry at position pos (counted from 1).
\* validated tells whether the list's iterator is Bytecode.__iter__ (a
\* Bytecode) or list's own (a plain _InstrList).  labels is the dict from
\* Label identity to offset; jumps the list of (target_label, position of
\* the emitted ConcreteInstr in instructions).
RECURSIVE FlatWalk(_, _, _, _, _, _, _, _)
FlatWalk(s, validated, pos, seen_try_begin, offset, instructions, labels, jumps) ==
    IF pos > Len(s)
    THEN [status |-> "ok", instructions |-> instructions, labels |-> labels,
          jumps |-> jumps]
    ELSE
    LET instr == s[pos]
        st == IF validated THEN IterStep(seen_try_begin, instr)
              ELSE [status |-> "ok", seen |-> seen_try_begin]
    IN  IF st.status # "ok"
        THEN [status |-> st.status, instructions |-> instructions,
              labels |-> labels, jumps |-> jumps]
        ELSE IF instr.kind = "Label"
        THEN FlatWalk(s, validated, pos + 1, st.seen, NextOffset(offset, instr),
                      Append(instructions, LabelPlaceholder(pos - 1, instr)),
                      (instr.id :> offset) @@ labels, jumps)
        ELSE IF IsJump(instr)
        THEN FlatWalk(s, validated, pos + 1, st.seen, NextOffset(offset, instr),
                      Append(instructions,
                             ConcreteInstr(instr.name, 0, instr.lineno)),
                      labels,
                      Append(jumps, [target_label |-> instr.arg.id,
                                     at |-> Len(instructions) + 1]))
        ELSE FlatWalk(s, validated, pos + 1, st.seen, NextOffset(offset, instr),
                      Append(instructions, instr), labels, jumps)

\* The second loop: instr.arg = labels[target_label] for every recorded
\* jump; a target that is no key of labels raises KeyError.
RECURSIVE ResolveJumps(_, _, _)
ResolveJumps(instructions, labels, jumps) ==
    IF jumps = <<>> THEN [status |-> "ok", value |-> instructions]
    ELSE LET j == Head(jumps)
         IN  IF j.target_label \notin DOMAIN labels
             THEN [status |-> "KeyError", value |-> <<>>]
             ELSE ResolveJumps(
                    [instructions EXCEPT
                        ![j.at].arg = IntArg(labels[j.target_label])],
                    labels, Tail(jumps))

\* _flat(): [status, value]
flat(s, validated) ==
    LET w == FlatWalk(s, validated, 1, FALSE, 0, <<>>, <<>>, <<>>)
    IN  IF w.status # "ok" THEN [status |-> w.status, value |-> <<>>]
        ELSE ResolveJumps(w.instructions, w.labels, w.jumps)

\* == of two items of flattened lists.  Instr and ConcreteInstr compare
\* their name, argument and location and never equal one another;
\* SetLineno compares its line; the placeholders are strings; TryBegin
\* and TryEnd have no __eq__ and compare by identity.
ItemEq(a, b) ==
    /\ a.kind = b.kind
    /\ a.name = b.name
    /\ a.arg = b.arg
    /\ a.lineno = b.lineno
    /\ (a.kind = "Instr" \/ a.id = b.id)

\* list.__eq__ on the two flattened lists
ListEq(a, b) ==
    /\ Len(a) = Len(b)
    /\ \A i \in 1..Len(a) : ItemEq(a[i], b[i])

\* A value == is asked to compare a Bytecode with: a Bytecode, a plain list
\* of entries, or a value that is no iterable (an int).
IsInstrList(other) == other.kind \in {"Bytecode", "_InstrList"}
IsIterable(other) == other.kind \in {"Bytecode", "_InstrList", "list"}

\* _InstrList.__eq__, which is Bytecode's __eq__: _InstrList precedes
\* _BaseBytecodeList and BaseBytecode in Bytecode's bases (lines 201-204),
\* and it does not call BaseBytecode.__eq__.  [status, value]
InstrList_eq(self, other) ==
    IF ~IsInstrList(other) /\ ~IsIterable(other)
    THEN [status |-> "TypeError", value |-> FALSE]
    ELSE
    LET a == flat(self.entries, self.kind = "Bytecode")
        b == flat(other.entries, other.kind = "Bytecode")
    IN  IF a.status # "ok" THEN [status |-> a.status, value |-> FALSE]
        ELSE IF b.status # "ok" THEN [status |-> b.status, value |-> FALSE]
        ELSE [status |-> "ok", value |-> ListEq(a.value, b.value)]

(***************************************************************************)
(* Bytecode.__init__, copy and __getitem__.                                *)
(***************************************************************************)
\* __init__ with the nesting check of __iter__ applied to the argument
Bytecode_init_iter(instructions) ==
    IF Bytecode_iter(instructions).status # "ok"
    THEN [status |-> Bytecode_iter(instructions).status, bc |-> NoBC]
    ELSE [status |-> "ok",
          bc |-> [kind |-> "Bytecode", entries |-> instructions,
                  meta |-> DefaultMeta, argnames |-> <<>>]]

\* Bytecode(instructions) for a plain sequence: _check_instr on every
\* element, then extend.  [status, bc]
Bytecode_init(instructions) ==
    IF \E i \in DOMAIN instructions : ~check_instr(instructions[i])
    THEN [status |-> "ValueError", bc |-> NoBC]
    ELSE [status |-> "ok",
          bc |-> [kind |-> "Bytecode", entries |-> instructions,
                  meta |-> DefaultMeta, argnames |-> <<>>]]

\* copy() with every Instr duplicated into a new object
copy_deep(self) ==
    LET new == Bytecode_init(Allocate(self.entries, InstrIds(self.entries)))
    IN  IF new.status # "ok" THEN new
        ELSE [new EXCEPT !.bc = copy_attr_from(new.bc, self)]

\* copy(): list.copy() makes a new list of the same references
copy(self) ==
    LET new == Bytecode_init(self.entries)
    IN  IF new.status # "ok" THEN new
        ELSE [new EXCEPT !.bc = copy_attr_from(new.bc, self)]

\* How list's slicing clamps a bound of a slice with no step.
AdjustIndex(i, n) ==
    IF i < 0 THEN (IF i + n < 0 THEN 0 ELSE i + n)
    ELSE IF i > n THEN n ELSE i

\* list.__getitem__(slice(i, j)): a plain list
ListSlice(s, i, j) ==
    LET start == AdjustIndex(i, Len(s))
        stop == AdjustIndex(j, Len(s))
    IN  IF stop <= start THEN <<>> ELSE SubSeq(s, start + 1, stop)

\* __getitem__ with a slice, without the _copy_attr_from call
getslice_no_attr(self, i, j) == Bytecode_init(ListSlice(self.entries, i, j))

\* __getitem__ with a slice
getslice(self, i, j) ==
    LET value == Bytecode_init(ListSlice(self.entries, i, j))
    IN  IF value.status # "ok" THEN value
        ELSE [value EXCEPT !.bc = copy_attr_from(value.bc, self)]

\* __getitem__ with an integer index: the entry itself, or IndexError
getitem(self, i) ==
    LET n == Len(self.entries)
        k == IF i < 0 THEN i + n ELSE i
    IN  IF k < 0 \/ k >= n THEN [status |-> "IndexError", value |-> <<>>]
        ELSE [status |-> "ok", value |-> <<self.entries[k + 1]>>]

(***************************************************************************)
(* The state.  C is the container under test; C2 the container made from   *)
(* it by copy(), slicing or renaming (NoBC before that); res the outcome   *)
(* of the last operation; old what C and res were before it.               *)
(***************************************************************************)
Result(op, status) ==
    [op |-> op, status |-> status, bool |-> FALSE, seq |-> <<>>,
     i |-> 0, j |-> 0, other |-> ""]

\* Bytecode(): the empty container with the default metadata
Init ==
    /\ C = Bytecode_init(<<>>).bc
    /\ C2 = NoBC
    /\ res = Result("init", "ok")
    /\ old = [C |-> Bytecode_init(<<>>).bc, op |-> "none", status |-> "ok"]

Step(newC, newC2, newRes) ==
    /\ C' = newC
    /\ C2' = newC2
    /\ res' = newRes
    /\ old' = [C |-> C, op |-> res.op, status |-> res.status]

\* sequences over S of length lo..hi
SeqsOf(S, lo, hi) == UNION {[1..n -> S] : n \in lo..hi}

\* the identities of the live Instr objects
LiveIds == InstrIds(C.entries) \cup InstrIds(C2.entries)

(***************************************************************************)
(* The operations.                                                         *)
(***************************************************************************)
\* C = Bytecode(seq); when the constructor raises, no container is made and
\* C stays what it was
Construct(seq) ==
    LET instructions == Allocate(seq, InstrIds(C2.entries))
        r == Bytecode_init(instructions)
    IN  Step(IF r.status = "ok" THEN r.bc ELSE C, C2,
             [Result("construct", r.status) EXCEPT !.seq = instructions])

\* C.append(e): list.append, which _BaseBytecodeList inherits unchanged
AppendEntry(e) ==
    /\ Len(C.entries) < MaxLen
    /\ Step([C EXCEPT !.entries = C.entries \o Allocate(<<e>>, LiveIds)], C2,
            Result("append", "ok"))

\* C.extend(seq): list.extend, inherited unchanged
ExtendEntries(seq) ==
    /\ Len(C.entries) + Len(seq) <= MaxLen
    /\ Step([C EXCEPT !.entries = C.entries \o Allocate(seq, LiveIds)], C2,
            Result("extend", "ok"))

\* C[i:j] = seq: list's slice assignment, inherited unchanged
SetSlice(i, j, seq) ==
    LET n == Len(C.entries)
        start == AdjustIndex(i, n)
        stop == IF AdjustIndex(j, n) < start THEN start ELSE AdjustIndex(j, n)
        new == SubSeq(C.entries, 1, start) \o Allocate(seq, LiveIds)
               \o SubSeq(C.entries, stop + 1, n)
    IN  /\ Len(new) <= MaxLen
        /\ Step([C EXCEPT !.entries = new], C2,
                [Result("setslice", "ok") EXCEPT !.i = i, !.j = j])

\* C.<f> = v for a field of the metadata
SetAttr(f, v) ==
    /\ C.meta[f] # v
    /\ Step([C EXCEPT !.meta[f] = v], C2, Result("setattr", "ok"))

\* C.argnames = v
SetArgnames(v) ==
    /\ C.argnames # v
    /\ Step([C EXCEPT !.argnames = v], C2, Result("setattr", "ok"))

\* list(iter(C)): the traversal; res.seq holds the entries yielded
Iterate ==
    LET r == Bytecode_iter(C.entries)
    IN  Step(C, C2, [Result("iter", r.status) EXCEPT
                        !.seq = SubSeq(C.entries, 1, r.n), !.i = r.n])

\* C.legalize()
Legalize ==
    LET r == legalize(C)
    IN  Step([C EXCEPT !.entries = r.entries],
             [C2 EXCEPT !.entries = SyncFrom(C2.entries, r.entries)],
             Result("legalize", r.status))

\* C2.legalize()
LegalizeCopy ==
    /\ C2.kind = "Bytecode"
    /\ LET r == legalize(C2)
       IN  Step([C EXCEPT !.entries = SyncFrom(C.entries, r.entries)],
                [C2 EXCEPT !.entries = r.entries],
                Result("legalize2", r.status))

\* C2[k].lineno = n for an instruction of C2 (k counted from 0)
SetInstrLineno(k, n) ==
    /\ C2.kind = "Bytecode"
    /\ k < Len(C2.entries)
    /\ IsInstr(C2.entries[k + 1])
    /\ C2.entries[k + 1].lineno # n
    /\ LET id == getitem(C2, k).value[1].id
       IN  Step([C EXCEPT !.entries = WriteLineno(C.entries, id, n)],
                [C2 EXCEPT !.entries = WriteLineno(C2.entries, id, n)],
                [Result("setlineno2", "ok") EXCEPT !.i = k])

\* del C2[k] (k counted from 0)
DelCopyItem(k) ==
    /\ C2.kind = "Bytecode"
    /\ k < Len(C2.entries)
    /\ Step(C, [C2 EXCEPT !.entries =
                    DelItem([status |-> "ok", entries |-> C2.entries], k).entries],
            [Result("del2", "ok") EXCEPT !.i = k])

\* C2 = C.copy()
Copy ==
    LET r == copy(C)
    IN  Step(C, IF r.status = "ok" THEN r.bc ELSE C2, Result("copy", r.status))

\* C2 = C[i:j]
GetSlice(i, j) ==
    LET r == getslice(C, i, j)
    IN  Step(C, IF r.status = "ok" THEN r.bc ELSE C2,
             [Result("getslice", r.status) EXCEPT !.i = i, !.j = j])

\* C[i]
GetItem(i) ==
    LET r == getitem(C, i)
    IN  Step(C, C2, [Result("getitem", r.status) EXCEPT !.seq = r.value, !.i = i])

\* C._flat()
Flat ==
    LET r == flat(C.entries, TRUE)
    IN  Step(C, C2, [Result("flat", r.status) EXCEPT !.seq = r.value])

\* The entries of s with every Label identity l, as an entry and as an
\* argument, replaced by FreshLabel(l).
RenameLabels(s) ==
    [i \in DOMAIN s |->
        IF s[i].kind = "Label" THEN Label(FreshLabel(s[i].id))
        ELSE IF IsJump(s[i])
        THEN [s[i] EXCEPT !.arg = LabelArg(FreshLabel(s[i].arg.id))]
        ELSE s[i]]

\* C2 = Bytecode(<C's entries rebuilt with fresh Labels>), with C's
\* metadata: the instructions are new objects, the Labels new identities
Rename ==
    LET r == Bytecode_init(Allocate(RenameLabels(C.entries), InstrIds(C.entries)))
    IN  Step(C, IF r.status = "ok" THEN copy_attr_from(r.bc, C) ELSE C2,
             Result("rename", r.status))

\* C == C2
EqCopy ==
    /\ C2.kind = "Bytecode"
    /\ LET r == InstrList_eq(C, C2)
       IN  Step(C, C2, [Result("eq", r.status) EXCEPT
                            !.bool = r.value, !.other = "Bytecode"])

\* C == list(C2's entries), a plain list holding the entries of C2
EqList ==
    LET r == InstrList_eq(C, [C2 EXCEPT !.kind = "list"])
    IN  Step(C, C2, [Result("eq", r.status) EXCEPT
                        !.bool = r.value, !.other = "list"])

\* C == 5, a value that is no sequence
EqInt ==
    LET r == InstrList_eq(C, [NoBC EXCEPT !.kind = "int"])
    IN  Step(C, C2, [Result("eq", r.status) EXCEPT
                        !.bool = r.value, !.other = "int"])

(***************************************************************************)
(* The entries and attribute values the operations are tried with.         *)
(***************************************************************************)
Lines == 1..MaxLine
NOP(lineno) == Instr(0, "NOP", NoArg, lineno)
JUMP(l) == Instr(0, "JUMP", LabelArg(l), UNSET)

LegalizeEntries ==
    {NOP(n) : n \in Lines \cup {UNSET}} \cup {SetLineno(n) : n \in Lines}
    \cup {Label(1), TryBegin(1), TryEnd(1)}

IterEntries == {NOP(UNSET), TryBegin(1), TryEnd(1)}

EqEntries ==
    {NOP(UNSET), TryBegin(1), TryEnd(1)} \cup {JUMP(l) : l \in LabelIds}
    \cup {Label(l) : l \in LabelIds}

CopyEntries == {NOP(UNSET), NOP(1), SetLineno(2), Label(1)}

SliceEntries == {NOP(UNSET), SetLineno(2), Label(1)}

AttrValues(f) ==
    CASE f \in {"argcount", "posonlyargcount", "kwonlyargcount"} -> {0, 1}
      [] f = "flags" -> {0, 32}
      [] f = "first_lineno" -> Lines
      [] f = "name" -> {"<module>", "f"}
      [] f = "filename" -> {"<string>", "a.py"}
      [] f = "docstring" -> {"UNSET", "None", "doc"}
      [] f \in {"cellvars", "freevars"} -> {<<>>, <<"x">>}

(***************************************************************************)
(* Specifications.  Each drives the container through one group of         *)
(* operations, in the order a program uses them: the container is built,   *)
(* then copied, sliced, traversed or compared.                             *)
(***************************************************************************)
\* building a container and legalizing it
NextLegalize ==
    \/ \E e \in LegalizeEntries : AppendEntry(e)
    \/ \E v \in AttrValues("first_lineno") : SetAttr("first_lineno", v)
    \/ Legalize

SpecLegalize == Init /\ [][NextLegalize]_vars

\* the ways entries get into a container, and its traversal
NextIter ==
    \/ \E seq \in SeqsOf(IterEntries \cup {Other(42)}, 0, MaxLen) :
            res.op = "init" /\ Construct(seq)
    \/ \E e \in IterEntries : AppendEntry(e)
    \/ \E seq \in SeqsOf(IterEntries, 2, 2) : ExtendEntries(seq)
    \/ \E i \in 0..MaxLen : \E j \in i..MaxLen :
        \E seq \in SeqsOf(IterEntries, 1, 1) : SetSlice(i, j, seq)
    \/ Iterate

SpecIter == Init /\ [][NextIter]_vars

\* flattening and equality
NextEq ==
    \/ \E e \in EqEntries : C2 = NoBC /\ AppendEntry(e)
    \/ Copy
    \/ Rename
    \/ Flat
    \/ EqCopy
    \/ EqList
    \/ EqInt

SpecEq == Init /\ [][NextEq]_vars

\* slices and copies of a container with its metadata, and their comparison:
\* one attribute is assigned, before the entries are added or after the
\* slice or copy is taken
Untouched == C.meta = DefaultMeta /\ C.argnames = <<>>

NextSlice ==
    \/ \E e \in SliceEntries : C2 = NoBC /\ AppendEntry(e)
    \/ \E f \in MetaFields : \E v \in AttrValues(f) :
            Untouched /\ (C.entries = <<>> \/ C2 # NoBC) /\ SetAttr(f, v)
    \/ \E v \in {<<"a">>} : Untouched /\ C.entries = <<>> /\ SetArgnames(v)
    \/ C2 = NoBC /\ Copy
    \/ \E i, j \in (0 - 1)..MaxLen : C2 = NoBC /\ GetSlice(i, j)
    \/ \E i \in (0 - MaxLen)..MaxLen : C2 = NoBC /\ GetItem(i)
    \/ EqCopy

SpecSlice == Init /\ [][NextSlice]_vars

\* a copy and changes made through it, while it still holds what C holds
NextCopy ==
    \/ \E e \in CopyEntries : C2 = NoBC /\ AppendEntry(e)
    \/ \E f \in {"name", "first_lineno"} : \E v \in AttrValues(f) :
            C2 = NoBC /\ C.meta = DefaultMeta /\ SetAttr(f, v)
    \/ Copy
    \/ C2.entries = C.entries /\ LegalizeCopy
    \/ \E k \in 0..(MaxLen - 1), n \in Lines :
            C2.entries = C.entries /\ SetInstrLineno(k, n)
    \/ \E k \in 0..(MaxLen - 1) : C2.entries = C.entries /\ DelCopyItem(k)
    \/ EqCopy

SpecCopy == Init /\ [][NextCopy]_vars

(***************************************************************************)
(* Vocabulary of the properties.                                           *)
(***************************************************************************)
IsMarker(e) == e.kind = "SetLineno"
IsLabel(e) == e.kind = "Label"
MarkerPositions(s) == {i \in DOMAIN s : IsMarker(s[i])}
LabelPositions(s) == {i \in DOMAIN s : IsLabel(s[i])}
JumpPositions(s) == {i \in DOMAIN s : IsJump(s[i])}
HadLine(e) == IsInstr(e) /\ e.lineno # UNSET
Max(S) == CHOOSE m \in S : \A x \in S : x <= m
Min(S) == CHOOSE m \in S : \A x \in S : m <= x

\* an entry without the line number it carries: which object it is
SameObject(e) == [e EXCEPT !.lineno = IF IsInstr(e) THEN UNSET ELSE e.lineno]
Objects(s) == [i \in DOMAIN s |-> SameObject(s[i])]

\* the entries of s that are no SetLineno, in order
NonMarkers(s) == SelectSeq(s, LAMBDA e : ~IsMarker(e))

\* the position in s of the k-th entry that is no SetLineno
NonMarkerPos(s, k) ==
    CHOOSE p \in DOMAIN s :
        /\ ~IsMarker(s[p])
        /\ Cardinality({q \in 1..p : ~IsMarker(s[q])}) = k

\* the line the claim attributes to the instruction at position p of s
AttributedLine(s, p, first_lineno) ==
    LET M == {q \in 1..(p - 1) : IsMarker(s[q])}
        E == {q \in 1..(p - 1) : HadLine(s[q])}
    IN  IF M # {} THEN s[Max(M)].lineno
        ELSE IF s[p].lineno # UNSET THEN s[p].lineno
        ELSE IF E # {} THEN s[Max(E)].lineno
        ELSE first_lineno

LegalizeDone == res.op = "legalize" /\ res.status = "ok"

\* C3: after legalize() completes no SetLineno is left, the other entries
\* are the same objects in the same order, and every instruction has the
\* line of the nearest SetLineno before it, else its own line, else the line
\* of the nearest instruction before it that had one, else first_lineno.
MarkerCollapse ==
    LegalizeDone =>
        LET before == old.C.entries
            after == C.entries
        IN  /\ MarkerPositions(after) = {}
            /\ Objects(after) = Objects(NonMarkers(before))
            /\ C.meta = old.C.meta
            /\ \A k \in DOMAIN after :
                 IsInstr(after[k]) =>
                    after[k].lineno =
                        AttributedLine(before, NonMarkerPos(before, k),
                                       C.meta.first_lineno)

\* a marker overwrote the explicit line of a later instruction, past an
\* instruction that precedes every marker
MarkerCollapseWitness ==
    /\ LegalizeDone
    /\ \E p, q, r \in DOMAIN old.C.entries :
        /\ p < q /\ q < r
        /\ IsInstr(old.C.entries[p])
        /\ IsMarker(old.C.entries[q])
        /\ HadLine(old.C.entries[r])
        /\ old.C.entries[r].lineno # old.C.entries[q].lineno

\* C2: a legalize() that follows a completed legalize() changes nothing:
\* the entries, their line numbers and the metadata stay as they were.
LegalizeIdempotent ==
    (LegalizeDone /\ old.op = "legalize" /\ old.status = "ok") => C = old.C

\* the second legalize() of a container whose instructions got two
\* different lines from the first
LegalizeIdempotentWitness ==
    /\ LegalizeDone /\ old.op = "legalize" /\ old.status = "ok"
    /\ \E p, q \in DOMAIN C.entries :
        /\ IsInstr(C.entries[p]) /\ IsInstr(C.entries[q])
        /\ C.entries[p].lineno # C.entries[q].lineno
        /\ C.entries[q].lineno # C.meta.first_lineno

\* the positions of the TryBegin entries reached while a region is open
NestedBegins(s) ==
    {i \in DOMAIN s :
        /\ s[i].kind = "TryBegin"
        /\ \E j \in 1..(i - 1) :
            /\ s[j].kind = "TryBegin"
            /\ \A k \in (j + 1)..(i - 1) : s[k].kind # "TryEnd"}

\* C4: a traversal fails with the nesting error exactly at the first
\* TryBegin reached while a region is open, having yielded the entries
\* before it; with no such TryBegin it yields every entry and ends cleanly.
NestingRejection ==
    res.op = "iter" =>
        IF NestedBegins(C.entries) = {}
        THEN res.status = "ok" /\ res.seq = C.entries
        ELSE /\ res.status = "RuntimeError"
             /\ res.seq = SubSeq(C.entries, 1, Min(NestedBegins(C.entries)) - 1)

\* the traversal of a list with a closed region followed by a nested one
\* would need four entries; here: a nested TryBegin met after two entries
NestingRejectionWitness ==
    /\ res.op = "iter"
    /\ res.status = "RuntimeError"
    /\ Len(res.seq) = 2
    /\ old.op \in {"append", "extend", "setslice", "construct"}

\* C9 as claimed: the constructor rejects every sequence the traversal
\* would reject, a nested TryBegin included.
ConstructRejectsNesting ==
    (res.op = "construct" /\ Bytecode_iter(res.seq).status # "ok")
        => res.status # "ok"

\* C9 as amended: the constructor raises ValueError exactly when an element
\* is none of the five variants, leaving no new container; any sequence of
\* valid entries, nested TryBegin or not, gives a container with those
\* entries in order and the default metadata.
ConstructChecksVariants ==
    res.op = "construct" =>
        IF \E i \in DOMAIN res.seq : res.seq[i].kind = "Other"
        THEN res.status = "ValueError" /\ C = old.C
        ELSE /\ res.status = "ok"
             /\ C.kind = "Bytecode"
             /\ C.entries = res.seq
             /\ C.meta = DefaultMeta
             /\ C.argnames = <<>>

\* a sequence with a nested TryBegin was made into a container
ConstructChecksVariantsWitness ==
    /\ res.op = "construct"
    /\ res.status = "ok"
    /\ NestedBegins(C.entries) # {}

\* the entries of s at the positions i..j-1 the slice bounds denote
\* (counted from 0, negative bounds from the end, clamped to the list)
SliceOf(s, i, j) ==
    LET lo == AdjustIndex(i, Len(s))
        hi == AdjustIndex(j, Len(s))
    IN  [k \in 1..(IF hi > lo THEN hi - lo ELSE 0) |-> s[lo + k]]

\* C10: C[i:j] is a new Bytecode with C's metadata values and exactly the
\* entries of the range, C is unchanged; C[i] is the raw entry.
SlicePreservesMetadata ==
    /\ res.op = "getslice" =>
        /\ res.status = "ok"
        /\ C2.kind = C.kind
        /\ C2.meta = C.meta
        /\ C2.entries = SliceOf(C.entries, res.i, res.j)
        /\ C = old.C
    /\ (res.op = "getitem" /\ res.i >= 0 /\ res.i < Len(C.entries)) =>
        /\ res.status = "ok"
        /\ res.seq = <<C.entries[res.i + 1]>>
        /\ C = old.C

\* C[1:3] of a three-entry container whose metadata is not the default
SlicePreservesMetadataWitness ==
    /\ res.op = "getslice"
    /\ res.i = 1 /\ res.j = 3
    /\ Len(C.entries) = 3
    /\ C.meta # DefaultMeta
    /\ Len(C2.entries) = 2

\* C5 as claimed: two containers compare equal only if their metadata is
\* equal.
EqRequiresSameMetadata ==
    (res.op = "eq" /\ res.other = "Bytecode" /\ res.status = "ok" /\ res.bool)
        => C.meta = C2.meta

\* C7 as claimed: == returns a boolean without raising, and false when the
\* other value is no Bytecode.
EqualityIsTotal ==
    res.op = "eq" =>
        /\ res.status = "ok"
        /\ (res.other # "Bytecode" => res.bool = FALSE)

\* the jumps of s whose target is no entry of s
Unresolved(s) ==
    {p \in DOMAIN s :
        IsJump(s[p]) /\ ~\E q \in DOMAIN s : IsLabel(s[q]) /\ s[q].id = s[p].arg.id}

\* the number of entries that are no Label before position q of s
EntriesBefore(s, q) == Cardinality({k \in 1..(q - 1) : ~IsLabel(s[k])})

\* the last position at which Label l is an entry of s
LastLabel(s, l) == Max({q \in DOMAIN s : IsLabel(s[q]) /\ s[q].id = l})

\* C8: _flat fails when a jump's Label is no entry of the stream; when it
\* completes, every jump carries the number of non-label entries before
\* its Label (before the Label's last occurrence), whether the Label comes
\* before or after the jump.
UnresolvedReference ==
    res.op = "flat" =>
        /\ Unresolved(C.entries) # {} => res.status # "ok"
        /\ (Unresolved(C.entries) = {} /\ NestedBegins(C.entries) = {})
                => res.status = "ok"
        /\ res.status = "ok" =>
            /\ Len(res.seq) = Len(C.entries)
            /\ \A p \in DOMAIN C.entries :
                IsJump(C.entries[p]) =>
                    /\ res.seq[p].kind = "ConcreteInstr"
                    /\ res.seq[p].arg =
                        IntArg(EntriesBefore(C.entries,
                                    LastLabel(C.entries, C.entries[p].arg.id)))

\* a jump to a Label that is no entry, in a stream that holds another Label
UnresolvedReferenceWitness ==
    /\ res.op = "flat"
    /\ res.status = "KeyError"
    /\ LabelPositions(C.entries) # {}

\* C2 holds C's entries with every Label replaced by a fresh one
IsRenaming ==
    /\ C2.kind = "Bytecode"
    /\ Len(C2.entries) = Len(C.entries)
    /\ \A i \in DOMAIN C.entries :
        [C2.entries[i] EXCEPT !.id = IF IsInstr(C2.entries[i]) THEN 0 ELSE @]
        = [RenameLabels(C.entries)[i] EXCEPT
                !.id = IF IsInstr(C.entries[i]) THEN 0 ELSE @]
    /\ \A i \in DOMAIN C.entries :
        IsLabel(C.entries[i]) => C2.entries[i].id # C.entries[i].id

ComparedWithRenaming ==
    res.op = "eq" /\ res.other = "Bytecode" /\ IsRenaming

ThroughCopy == res.op \in {"legalize2", "setlineno2", "del2"}

====
